---- MODULE Spec2Model ----
(***************************************************************************)
(* The training loop of notebooks/3_Custom_Model_and_Layer.ipynb: train()  *)
(* (gradient descent with early stopping and periodic logging) and the     *)
(* models it is applied to (LinearModel with eagerly created variables,    *)
(* LinearModel stacked from lazily built Linear layers).                   *)
(*                                                                         *)
(* Numbers: tensors are abstracted to one scalar each, and scalars are     *)
(* exact rationals <<numerator, denominator>> in lowest terms (the float32 *)
(* rounding of the runtime is not modelled).                               *)
(***************************************************************************)
EXTENDS Integers, Sequences, FiniteSets, TLC

(***************************************************************************)
(* Bounds of the model.                                                    *)
(***************************************************************************)
MaxEpochs == 3
MaxVerbose == 2
MaxLayers == 2

(***************************************************************************)
(* Exact rational arithmetic.                                              *)
(***************************************************************************)
RECURSIVE Gcd(_, _)
Gcd(a, b) == IF b = 0 THEN a ELSE Gcd(b, a % b)

Abs(n) == IF n < 0 THEN -n ELSE n

Rat(n, d) ==
    LET g == Gcd(Abs(n), Abs(d))
        s == IF d < 0 THEN -1 ELSE 1
    IN  <<s * (n \div g), s * (d \div g)>>

Zero == <<0, 1>>
One == <<1, 1>>

RMul(a, b) ==
    LET g1 == Gcd(Abs(a[1]), b[2])
        g2 == Gcd(Abs(b[1]), a[2])
    IN  Rat((a[1] \div g1) * (b[1] \div g2), (a[2] \div g2) * (b[2] \div g1))

RAdd(a, b) ==
    LET g == Gcd(a[2], b[2])
    IN  Rat(a[1] * (b[2] \div g) + b[1] * (a[2] \div g), a[2] * (b[2] \div g))

RNeg(a) == <<-a[1], a[2]>>

RSub(a, b) == RAdd(a, RNeg(b))

RAbs(a) == <<Abs(a[1]), a[2]>>

\* a/b < c/d for b, d > 0, by comparing the continued fractions (no products).
RECURSIVE Less(_, _, _, _)
Less(a, b, c, d) ==
    LET qa == a \div b
        qc == c \div d
        ra == a - qa * b
        rc == c - qc * d
    IN  IF qa # qc THEN qa < qc
        ELSE IF rc = 0 THEN FALSE
        ELSE IF ra = 0 THEN TRUE
        ELSE Less(d, rc, b, ra)

RLess(a, b) == Less(a[1], a[2], b[1], b[2])

RLeq(a, b) == ~RLess(b, a)

RECURSIVE RSum(_)
RSum(s) == IF s = <<>> THEN Zero ELSE RAdd(Head(s), RSum(Tail(s)))

\* tf.reduce_mean over the elements of s.
ReduceMean(s) == RMul(RSum(s), Rat(1, Len(s)))

\* tf.square, elementwise.
Square(s) == [i \in DOMAIN s |-> RMul(s[i], s[i])]

(***************************************************************************)
(* '{:5.4f}'.format: a value rounded to 4 decimal places (ties to even),   *)
(* given as the number of 1e-4 units that is printed.                      *)
(***************************************************************************)
DecimalScale == 10000

Format4(r) ==
    LET n == r[1] * DecimalScale
        q == n \div r[2]
        rem == n - q * r[2]
    IN  IF 2 * rem > r[2] THEN q + 1
        ELSE IF 2 * rem < r[2] THEN q
        ELSE IF q % 2 = 0 THEN q ELSE q + 1

(***************************************************************************)
(* Python values.                                                          *)
(***************************************************************************)
\* best_loss is None, or a float.
None == [isNone |-> TRUE, val |-> Zero]
Float(r) == [isNone |-> FALSE, val |-> r]

\* Truth value of best_loss in `not best_loss`: None and 0.0 are both falsy.
Truthy(b) == ~b.isNone /\ b.val # Zero

\* What a call of a function without a return statement evaluates to: no
\* value of the function's frame is handed to the caller.
NoReturnValue == <<>>

\* The call has not returned yet.
NotReturned == <<"running">>

(***************************************************************************)
(* The data and the models.                                                *)
(***************************************************************************)
\* A variable of a model: the layer that owns it (0: the model itself), its
\* role ("w" or "b") and its value.
Var(layer, role, val) == [layer |-> layer, role |-> role, val |-> val]

\* The end-to-end scenario's data: y = 2x.
ScenarioX == <<One, Rat(2, 1), Rat(3, 1)>>
ScenarioY == <<Rat(2, 1), Rat(4, 1), Rat(6, 1)>>

\* Values a single weight w may hold when train is entered.
InitialW == {Rat(1, 2), Rat(3, 4), One, Rat(2, 1)}

\* LinearModel(input_dim=1, output_dim=1) of cell 3: y_hat = x @ w.
ScalarModels ==
    {[name |-> "scalar", layers |-> <<>>, variables |-> <<Var(0, "w", w)>>] :
        w \in InitialW}

\* LinearModel of cell 8: w and b are created in the constructor.
AffineModel ==
    [name |-> "affine", layers |-> <<>>,
     variables |-> <<Var(0, "w", One), Var(0, "b", Zero)>>]

\* Linear(units, use_bias): no variable before build.
Linear(use_bias) == [use_bias |-> use_bias, built |-> FALSE]

\* LinearModel(num_units, use_bias) of cell 11: a list of Linear layers.
LayeredModel(n, use_bias) ==
    [name |-> "layered", layers |-> [i \in 1..n |-> Linear(use_bias)],
     variables |-> <<>>]

LayeredModels == {LayeredModel(n, ub) : n \in 1..MaxLayers, ub \in BOOLEAN}

\* Any other model a caller hands to train: one variable, and a forward pass
\* that need not be a function of the variables alone (noise, a call count).
ExternalModel ==
    [name |-> "external", layers |-> <<>>, variables |-> <<Var(0, "w", One)>>]

\* A caller's model with a variable that its forward pass does not use.
DetachedModel ==
    [name |-> "detached", layers |-> <<>>,
     variables |-> <<Var(0, "w", One), Var(0, "unused", Zero)>>]

Models ==
    ScalarModels \cup {AffineModel, ExternalModel, DetachedModel}
        \cup LayeredModels

(***************************************************************************)
(* Configurations: train's keyword arguments.                              *)
(***************************************************************************)
\* The defaults of train's signature: learning_rate=.01, max_epochs=10000,
\* min_tol=1e-3.
DefaultMaxEpochs == 10000
DefaultTolDenominator == 1000
DefaultRateDenominator == 100

DefaultTol == Rat(1, DefaultTolDenominator)
DefaultRate == Rat(1, DefaultRateDenominator)

\* The end-to-end scenario: learning_rate = 0.1, min_tol = 1e-6.
ScenarioRate == Rat(1, 10)
ScenarioTol == Rat(1, 1000000)

MinTols == {RNeg(DefaultTol), Zero, DefaultTol}

Verboses == 0..MaxVerbose

Epochs == 1..MaxEpochs

Config(lr, me, mt, vb) ==
    [learning_rate |-> lr, max_epochs |-> me, min_tol |-> mt, verbose |-> vb]

\* The end-to-end scenario's configuration (max_epochs left at 10000).
ScenarioConfigs ==
    {Config(ScenarioRate, DefaultMaxEpochs, ScenarioTol, vb) : vb \in Verboses}

ConfigsFor(m) ==
    IF m.name = "scalar"
    THEN {Config(ScenarioRate, me, mt, vb) :
              me \in Epochs, mt \in MinTols \cup {ScenarioTol}, vb \in Verboses}
         \cup ScenarioConfigs
    ELSE {Config(DefaultRate, me, mt, vb) :
              me \in Epochs, mt \in MinTols, vb \in Verboses}

(***************************************************************************)
(* What the runtime may answer for a model whose arithmetic is not         *)
(* modelled: a loss (a mean of squares, so never negative) and gradients,  *)
(* distinct by position.  For the repository's models the forward pass is  *)
(* a function of the variables and the gradient is that of the loss: a     *)
(* loss of 0 has gradients of 0, and unchanged variables repeat the loss.  *)
(***************************************************************************)
Losses == {Zero, Rat(1, 3000), One}

GradientBases == {-1, 2}

LossesAfter(m, updated, vs, before, l) ==
    IF m # "external" /\ updated /\ vs = before THEN {l} ELSE Losses

\* tape.gradient gives None, not a tensor, for a variable the loss does not
\* depend on.
NoGradient == <<0, 0>>

GradientsFor(m, l, vs) ==
    LET Connected(i, g) == IF vs[i].role = "unused" THEN NoGradient ELSE g
    IN  IF m # "external" /\ l = Zero
        THEN {[i \in DOMAIN vs |-> Connected(i, Zero)]}
        ELSE {[i \in DOMAIN vs |-> Connected(i, Rat(g * i, 1))] :
                 g \in GradientBases}

VARIABLES
    model,        \* which model train is applied to
    layers,       \* the model's Linear layers (use_bias, built)
    variables,    \* model.variables
    called,       \* the model has seen data (a forward pass has run)
    cfg,          \* train's learning_rate, max_epochs, min_tol, verbose
    pc,           \* position in train
    it,           \* the loop variable (-1 before the first iteration)
    best_loss,
    loss,
    gradients,
    zi,           \* position of the zip over (variables, gradients)
    out,          \* the lines printed
    ret,          \* what the call evaluated to
    nfwd,         \* forward passes made by train
    nupd,         \* update steps completed by train
    losses,       \* the loss of every iteration so far
    bests,        \* best_loss after its update in every iteration so far
    pre,          \* the variables when the gradients were computed
    broke,        \* the loop was left by break
    entry         \* model.variables when train was entered

vars == <<model, layers, variables, called, cfg, pc, it, best_loss, loss,
          gradients, zi, out, ret, nfwd, nupd, losses, bests, pre, broke,
          entry>>

Init ==
    \E m \in Models :
        \E c \in ConfigsFor(m) :
            /\ model = m.name
            /\ layers = m.layers
            /\ variables = m.variables
            /\ called = FALSE
            /\ cfg = c
            /\ pc = "idle"
            /\ it = -1
            /\ best_loss = None
            /\ loss = Zero
            /\ gradients = <<>>
            /\ zi = 0
            /\ out = <<>>
            /\ ret = NotReturned
            /\ nfwd = 0
            /\ nupd = 0
            /\ losses = <<>>
            /\ bests = <<>>
            /\ pre = <<>>
            /\ broke = FALSE
            /\ entry = <<>>

(***************************************************************************)
(* The forward pass.                                                       *)
(***************************************************************************)
\* The weight a layer's build creates (add_weight's default initializer
\* draws it; one value stands for the draw).
BuildW == Rat(1, 2)

\* Linear.build: a weight, and a bias of zeros if use_bias.
Build(i, layer) ==
    IF layer.use_bias
    THEN <<Var(i, "w", BuildW), Var(i, "b", Zero)>>
    ELSE <<Var(i, "w", BuildW)>>

\* Mutation of MaybeBuild: build runs on every call.
MaybeBuildAlways(i, layer) == Build(i, layer)

\* A layer is built when data first goes through it, and never again.
MaybeBuild(i, layer) == IF layer.built THEN <<>> ELSE Build(i, layer)

\* LinearModel.call: the data goes through the layers in order. The
\* variables of the model afterwards.
RECURSIVE CallVariables(_, _, _)
CallVariables(ls, i, vs) ==
    IF i > Len(ls) THEN vs
    ELSE CallVariables(ls, i + 1, vs \o MaybeBuild(i, ls[i]))

CallLayers(ls) == [i \in DOMAIN ls |-> [ls[i] EXCEPT !.built = TRUE]]

\* y_hat = model(x) for the single weight w: x @ w.
ScalarCall(x, w) == [i \in DOMAIN x |-> RMul(x[i], w)]

\* loss = tf.reduce_mean(tf.square(y - y_hat))
MseLoss(y, y_hat) ==
    ReduceMean(Square([i \in DOMAIN y |-> RSub(y[i], y_hat[i])]))

\* tape.gradient(loss, [w]) for y_hat = x @ w: d loss / d w.
ScalarGradient(x, y, w) ==
    LET y_hat == ScalarCall(x, w)
    IN  ReduceMean([i \in DOMAIN x |->
            RMul(Rat(-2, 1), RMul(x[i], RSub(y[i], y_hat[i])))])

(***************************************************************************)
(* Pieces of train.                                                        *)
(***************************************************************************)
\* Mutation of NewBest: the comparison is turned around (a running maximum).
NewBestReversed(best, l) ==
    IF ~Truthy(best) THEN Float(l)
    ELSE IF RLess(best.val, l) THEN Float(l)
    ELSE best

\* if not best_loss or best_loss > loss.numpy(): best_loss = loss.numpy()
NewBest(best, l) ==
    IF ~Truthy(best) THEN Float(l)
    ELSE IF RLess(l, best.val) THEN Float(l)
    ELSE best

\* Mutation of BelowTol: the comparison is not strict.
BelowTolNotStrict(best, min_tol) == RLeq(best.val, min_tol)

\* Mutation of BelowTol: the comparison is turned around.
BelowTolReversed(best, min_tol) == RLess(min_tol, best.val)

\* if best_loss < min_tol
BelowTol(best, min_tol) == RLess(best.val, min_tol)

\* Mutation of ShouldLog: the iterations are counted from 1.
ShouldLogFromOne(verbose, i) == verbose # 0 /\ (i + 1) % verbose = 0

\* if verbose and not (it % verbose)
ShouldLog(verbose, i) == verbose # 0 /\ i % verbose = 0

\* 'mse loss at iteration {} is {:5.4f}'.format(it, loss)
ProgressLine(i, l) == <<"progress", i, Format4(l)>>

TerminatedLine == <<"terminated">>

\* Mutation of AssignAdd: the step goes up the gradient.
AssignAddAscent(v, learning_rate, g) ==
    [v EXCEPT !.val = RAdd(v.val, RMul(learning_rate, g))]

\* variables.assign_add(-learning_rate * grads)
AssignAdd(v, learning_rate, g) ==
    [v EXCEPT !.val = RAdd(v.val, RMul(RNeg(learning_rate), g))]

\* zip stops at the shorter of its arguments.
ZipLen(a, b) == IF Len(a) < Len(b) THEN Len(a) ELSE Len(b)

\* Mutation of ReturnValue: train ends with `return best_loss, it`.
ReturnState(best, i) == <<best, i>>

\* train has no return statement.
ReturnValue(best, i) == NoReturnValue

(***************************************************************************)
(* Actions.                                                                *)
(***************************************************************************)
\* o = model(x) outside train (cells 5 and 12).
CallModel ==
    /\ pc = "idle"
    /\ variables' = CallVariables(layers, 1, variables)
    /\ layers' = CallLayers(layers)
    /\ called' = TRUE
    /\ UNCHANGED <<entry, model, cfg, pc, it, best_loss, loss, gradients, zi, out,
                   ret, nfwd, nupd, losses, bests, pre, broke>>

\* train(x, y, model, ...): best_loss = None
TrainEnter ==
    /\ pc = "idle"
    /\ best_loss' = None
    /\ entry' = variables
    /\ pc' = "for"
    /\ UNCHANGED <<model, layers, variables, called, cfg, it, loss, gradients,
                   zi, out, ret, nfwd, nupd, losses, bests, pre, broke>>

\* for it in range(max_epochs)
ForNext ==
    /\ pc = "for"
    /\ IF it + 1 < cfg.max_epochs
       THEN it' = it + 1 /\ pc' = "forward"
       ELSE it' = it /\ pc' = "return"
    /\ UNCHANGED <<entry, model, layers, variables, called, cfg, best_loss, loss,
                   gradients, zi, out, ret, nfwd, nupd, losses, bests, pre,
                   broke>>

\* y_hat = model(x); loss = tf.reduce_mean(tf.square(y - y_hat))
Forward ==
    /\ pc = "forward"
    /\ variables' = CallVariables(layers, 1, variables)
    /\ layers' = CallLayers(layers)
    /\ called' = TRUE
    /\ IF model = "scalar"
       THEN loss' = MseLoss(ScenarioY, ScalarCall(ScenarioX, variables[1].val))
       ELSE loss' \in LossesAfter(model, nupd > 0, variables', pre, loss)
    /\ losses' = Append(losses, loss')
    /\ nfwd' = nfwd + 1
    /\ pc' = "best"
    /\ UNCHANGED <<entry, model, cfg, it, best_loss, gradients, zi, out, ret, nupd,
                   bests, pre, broke>>

UpdateBest ==
    /\ pc = "best"
    /\ best_loss' = NewBest(best_loss, loss)
    /\ bests' = Append(bests, best_loss')
    /\ pc' = "check"
    /\ UNCHANGED <<entry, model, layers, variables, called, cfg, it, loss, gradients,
                   zi, out, ret, nfwd, nupd, losses, pre, broke>>

\* Mutation of CheckTol: the break is missing.
CheckTolNoBreak ==
    /\ pc = "check"
    /\ out' = IF BelowTol(best_loss, cfg.min_tol) /\ cfg.verbose # 0
              THEN Append(out, TerminatedLine)
              ELSE out
    /\ pc' = "log"
    /\ UNCHANGED <<entry, model, layers, variables, called, cfg, it, best_loss, loss,
                   gradients, zi, ret, nfwd, nupd, losses, bests, pre, broke>>

\* Mutation of CheckTol: the break is inside the `if verbose`.
CheckTolBreakIfVerbose ==
    /\ pc = "check"
    /\ IF BelowTol(best_loss, cfg.min_tol) /\ cfg.verbose # 0
       THEN /\ out' = Append(out, TerminatedLine)
            /\ broke' = TRUE
            /\ pc' = "return"
       ELSE /\ pc' = "log"
            /\ UNCHANGED <<out, broke>>
    /\ UNCHANGED <<entry, model, layers, variables, called, cfg, it, best_loss, loss,
                   gradients, zi, ret, nfwd, nupd, losses, bests, pre>>

\* Mutation of CheckTol: the check comes after the iteration's update step.
CheckTolAfterUpdate ==
    /\ pc = "check"
    /\ IF BelowTol(best_loss, cfg.min_tol)
       THEN /\ out' = IF cfg.verbose # 0 THEN Append(out, TerminatedLine)
                      ELSE out
            /\ variables' =
                  [i \in DOMAIN variables |->
                      IF variables[i].role = "unused" THEN variables[i]
                      ELSE AssignAdd(variables[i], cfg.learning_rate,
                                     Rat(2 * i, 1))]
            /\ nupd' = nupd + 1
            /\ broke' = TRUE
            /\ pc' = "return"
       ELSE /\ pc' = "log"
            /\ UNCHANGED <<out, broke, variables, nupd>>
    /\ UNCHANGED <<entry, model, layers, called, cfg, it, best_loss, loss,
                   gradients, zi, ret, nfwd, losses, bests, pre>>

\* Mutation of CheckTol: the progress line of the iteration is printed
\* before the check.
CheckTolAfterLog ==
    /\ pc = "check"
    /\ IF BelowTol(best_loss, cfg.min_tol)
       THEN /\ out' = (IF ShouldLog(cfg.verbose, it)
                       THEN Append(out, ProgressLine(it, loss))
                       ELSE out)
                      \o (IF cfg.verbose # 0 THEN <<TerminatedLine>> ELSE <<>>)
            /\ broke' = TRUE
            /\ pc' = "return"
       ELSE /\ pc' = "log"
            /\ UNCHANGED <<out, broke>>
    /\ UNCHANGED <<entry, model, layers, variables, called, cfg, it, best_loss, loss,
                   gradients, zi, ret, nfwd, nupd, losses, bests, pre>>

CheckTol ==
    /\ pc = "check"
    /\ IF BelowTol(best_loss, cfg.min_tol)
       THEN /\ out' = IF cfg.verbose # 0 THEN Append(out, TerminatedLine)
                      ELSE out
            /\ broke' = TRUE
            /\ pc' = "return"
       ELSE /\ pc' = "log"
            /\ UNCHANGED <<out, broke>>
    /\ UNCHANGED <<entry, model, layers, variables, called, cfg, it, best_loss, loss,
                   gradients, zi, ret, nfwd, nupd, losses, bests, pre>>

Log ==
    /\ pc = "log"
    /\ out' = IF ShouldLog(cfg.verbose, it)
              THEN Append(out, ProgressLine(it, loss))
              ELSE out
    /\ pc' = "grad"
    /\ UNCHANGED <<entry, model, layers, variables, called, cfg, it, best_loss, loss,
                   gradients, zi, ret, nfwd, nupd, losses, bests, pre, broke>>

\* gradients = tape.gradient(loss, model.variables)
Gradient ==
    /\ pc = "grad"
    /\ IF model = "scalar"
       THEN gradients' =
                <<ScalarGradient(ScenarioX, ScenarioY, variables[1].val)>>
       ELSE gradients' \in GradientsFor(model, loss, variables)
    /\ pre' = variables
    /\ zi' = 1
    /\ pc' = "update"
    /\ UNCHANGED <<entry, model, layers, variables, called, cfg, it, best_loss, loss,
                   out, ret, nfwd, nupd, losses, bests, broke>>

\* Mutation of Update: the gradients are computed again after every pair,
\* from the variables as they then are.
UpdateRecomputes ==
    /\ pc = "update"
    /\ IF zi <= ZipLen(variables, gradients)
       THEN IF gradients[zi] = NoGradient
            THEN /\ pc' = "raised"
                 /\ UNCHANGED <<variables, zi, nupd, gradients>>
            ELSE /\ variables' =
                       [variables EXCEPT
                           ![zi] = AssignAdd(@, cfg.learning_rate,
                                             gradients[zi])]
                 /\ zi' = zi + 1
                 /\ IF model = "scalar"
                    THEN gradients' =
                             <<ScalarGradient(ScenarioX, ScenarioY,
                                              variables'[1].val)>>
                    ELSE gradients' \in GradientsFor(model, loss, variables')
                 /\ UNCHANGED <<nupd, pc>>
       ELSE /\ nupd' = nupd + 1
            /\ pc' = "for"
            /\ UNCHANGED <<variables, zi, gradients>>
    /\ UNCHANGED <<entry, model, layers, called, cfg, it, best_loss, loss,
                   out, ret, nfwd, losses, bests, pre, broke>>

\* Mutation of Update: a variable without a gradient is passed over.
UpdateSkipsMissing ==
    /\ pc = "update"
    /\ IF zi <= ZipLen(variables, gradients)
       THEN /\ variables' =
                  IF gradients[zi] = NoGradient THEN variables
                  ELSE [variables EXCEPT
                           ![zi] = AssignAdd(@, cfg.learning_rate,
                                             gradients[zi])]
            /\ zi' = zi + 1
            /\ UNCHANGED <<nupd, pc>>
       ELSE /\ nupd' = nupd + 1
            /\ pc' = "for"
            /\ UNCHANGED <<variables, zi>>
    /\ UNCHANGED <<entry, model, layers, called, cfg, it, best_loss, loss,
                   gradients, out, ret, nfwd, losses, bests, pre, broke>>

\* for variables, grads in zip(model.variables, gradients): one pair, or the
\* end of the zip and of the iteration.  -learning_rate * None raises a
\* TypeError, which train does not catch: the call ends there.
Update ==
    /\ pc = "update"
    /\ IF zi <= ZipLen(variables, gradients)
       THEN IF gradients[zi] = NoGradient
            THEN /\ pc' = "raised"
                 /\ UNCHANGED <<variables, zi, nupd>>
            ELSE /\ variables' =
                       [variables EXCEPT
                           ![zi] = AssignAdd(@, cfg.learning_rate,
                                             gradients[zi])]
                 /\ zi' = zi + 1
                 /\ UNCHANGED <<nupd, pc>>
       ELSE /\ nupd' = nupd + 1
            /\ pc' = "for"
            /\ UNCHANGED <<variables, zi>>
    /\ UNCHANGED <<entry, model, layers, called, cfg, it, best_loss, loss,
                   gradients, out, ret, nfwd, losses, bests, pre, broke>>

\* The end of train's body.
Return ==
    /\ pc = "return"
    /\ ret' = ReturnValue(best_loss, it)
    /\ pc' = "done"
    /\ UNCHANGED <<entry, model, layers, variables, called, cfg, it, best_loss, loss,
                   gradients, zi, out, nfwd, nupd, losses, bests, pre, broke>>

Next ==
    \/ CallModel
    \/ TrainEnter
    \/ ForNext
    \/ Forward
    \/ UpdateBest
    \/ CheckTol
    \/ Log
    \/ Gradient
    \/ Update
    \/ Return

Spec == Init /\ [][Next]_vars

(***************************************************************************)
(* Vocabulary of the properties.                                           *)
(***************************************************************************)
IsProgress(line) == line[1] = "progress"

ProgressLines == SelectSeq(out, IsProgress)

Terminated == \E i \in DOMAIN out : out[i] = TerminatedLine

Done == pc = "done"

(***************************************************************************)
(* C1: with min_tol <= 0 (and losses that are never negative) train never  *)
(* takes the early-termination branch: no break, no termination notice,    *)
(* and when train is over it has made exactly max_epochs forward passes    *)
(* and max_epochs update steps.                                            *)
(***************************************************************************)
C1_NoEarlyStopWithoutTolerance ==
    RLeq(cfg.min_tol, Zero) =>
        /\ ~broke
        /\ ~Terminated
        /\ Done => nfwd = cfg.max_epochs /\ nupd = cfg.max_epochs

\* A run over MaxEpochs iterations with min_tol = 0 in which a loss was 0.
C1_Witness ==
    /\ Done
    /\ cfg.min_tol = Zero
    /\ cfg.max_epochs = MaxEpochs
    /\ nfwd = MaxEpochs
    /\ nupd = MaxEpochs
    /\ \E i \in DOMAIN losses : losses[i] = Zero

(***************************************************************************)
(* C2: when the loss of iteration 0 is below min_tol, train stops after    *)
(* exactly one iteration (one forward pass), by break, and at most one     *)
(* progress line, for iteration 0, has been printed.                       *)
(***************************************************************************)
C2_FirstLossBelowTolStopsAtOnce ==
    (losses # <<>> /\ RLess(losses[1], cfg.min_tol)) =>
        /\ nfwd = 1
        /\ Len(ProgressLines) <= 1
        /\ \A i \in DOMAIN ProgressLines : ProgressLines[i][2] = 0
        /\ Done => broke

\* A call that could have run more iterations and stopped after the first.
C2_Witness ==
    /\ Done
    /\ cfg.max_epochs > 1
    /\ cfg.verbose = 1
    /\ RLess(losses[1], cfg.min_tol)
    /\ nfwd = 1

(***************************************************************************)
(* C3: best_loss never increases from one iteration of a train call to a   *)
(* later one, for every loss sequence (losses of 0 included) and every     *)
(* min_tol.                                                                *)
(***************************************************************************)
C3_BestLossNonIncreasing ==
    \A i \in DOMAIN bests : \A j \in DOMAIN bests :
        i < j => RLeq(bests[j].val, bests[i].val)

(***************************************************************************)
(* C4: for verbose >= 1 the progress lines of a train call are exactly     *)
(* those of the iterations 0, verbose, 2*verbose, ... below the iteration  *)
(* at which the loop stops (the iteration of the break, or max_epochs), in *)
(* order, each carrying its iteration and that iteration's own loss        *)
(* (printed with 4 decimals), not best_loss.                               *)
(***************************************************************************)
StopIteration == IF broke THEN it ELSE cfg.max_epochs

RECURSIVE ExpectedProgress(_)
ExpectedProgress(n) ==
    IF n = 0 THEN <<>>
    ELSE ExpectedProgress(n - 1) \o
             (IF (n - 1) % cfg.verbose = 0
              THEN << <<"progress", n - 1, Format4(losses[n]) >> >>
              ELSE <<>>)

C4_ProgressLines ==
    (cfg.verbose >= 1 /\ Done) =>
        ProgressLines = ExpectedProgress(StopIteration)

\* Lines at iterations 0 and MaxVerbose, one of them with a loss that is not
\* the best loss of its iteration.
C4_Witness ==
    /\ Done
    /\ cfg.verbose = MaxVerbose
    /\ Len(ProgressLines) >= 2
    /\ \E i \in DOMAIN ProgressLines :
           ProgressLines[i][3] # Format4(bests[ProgressLines[i][2] + 1].val)

(***************************************************************************)
(* C5: with verbose = 0 a train call prints nothing, neither a progress    *)
(* line nor the termination notice; and whatever verbose is, the forward   *)
(* passes and update steps made are those the losses, min_tol and          *)
(* max_epochs alone determine.                                             *)
(***************************************************************************)
\* best_loss after the losses ls, from None.
RECURSIVE BestAfter(_)
BestAfter(ls) ==
    IF ls = <<>> THEN None
    ELSE NewBest(BestAfter(SubSeq(ls, 1, Len(ls) - 1)), ls[Len(ls)])

StopsAfter(ls) == ls # <<>> /\ RLess(BestAfter(ls).val, cfg.min_tol)

C5_VerboseZeroIsSilent ==
    /\ cfg.verbose = 0 => out = <<>>
    /\ Done =>
          /\ nfwd = Len(losses)
          /\ \A k \in 1..(nfwd - 1) : ~StopsAfter(SubSeq(losses, 1, k))
          /\ IF StopsAfter(losses)
             THEN broke /\ nupd = nfwd - 1
             ELSE ~broke /\ nfwd = cfg.max_epochs /\ nupd = nfwd

\* A silent call that broke off after at least one update.
C5_Witness ==
    /\ Done
    /\ cfg.verbose = 0
    /\ broke
    /\ nupd >= 1
    /\ out = <<>>

(***************************************************************************)
(* C6: an update step is plain gradient descent, pairing variables and     *)
(* gradients by position: each variable ends at its value before the step  *)
(* minus learning_rate times its own gradient, and nothing else enters     *)
(* (p = 1.0, g = 2.0, learning_rate = 0.01 gives 0.98).                    *)
(***************************************************************************)
Descended(i) ==
    variables[i].val = RSub(pre[i].val, RMul(cfg.learning_rate, gradients[i]))

C6_GradientDescentStep ==
    /\ pc = "update" =>
          /\ Len(gradients) = Len(variables)
          /\ \A i \in DOMAIN variables :
                 IF i < zi THEN Descended(i) ELSE variables[i] = pre[i]
    /\ (nupd > 0 /\ pc \notin {"grad", "update"}) =>
          /\ Len(pre) = Len(variables)
          /\ \A i \in DOMAIN variables : Descended(i)

\* The step of the example: 1.0 - 0.01 * 2.0 = 0.98, with a second variable
\* still to be updated.
C6_Witness ==
    /\ pc = "update"
    /\ zi = 2
    /\ Len(variables) = 2
    /\ pre[1].val = One
    /\ gradients[1] = Rat(2, 1)
    /\ cfg.learning_rate = Rat(1, 100)
    /\ variables[1].val = Rat(49, 50)

(***************************************************************************)
(* C7: with max_epochs = 1 exactly one update step is made whether or not  *)
(* the loss of the single iteration is below min_tol, and one iteration is *)
(* counted.  (As stated; the loop breaks before the update.)               *)
(***************************************************************************)
C7_OneUpdateRegardless ==
    (cfg.max_epochs = 1 /\ Done) => nfwd = 1 /\ nupd = 1

(***************************************************************************)
(* C7, amended: with max_epochs = 1 exactly one iteration (one forward     *)
(* pass) is made; one update step follows it when its loss is not below    *)
(* min_tol, and none when it is (the loop breaks before the update).       *)
(***************************************************************************)
C7_OneIterationUpdateUnlessConverged ==
    (cfg.max_epochs = 1 /\ Done) =>
        /\ nfwd = 1
        /\ it = 0
        /\ IF RLess(losses[1], cfg.min_tol)
           THEN broke /\ nupd = 0
           ELSE ~broke /\ nupd = 1

\* The single weight already at 2: the one iteration converges, no update.
C7_Witness ==
    /\ Done
    /\ cfg.max_epochs = 1
    /\ model = "scalar"
    /\ cfg.min_tol = ScenarioTol
    /\ nfwd = 1
    /\ nupd = 0

InScenario == model = "scalar" /\ cfg \in ScenarioConfigs

CloseToTwo(w) == RLeq(RAbs(RSub(w, Rat(2, 1))), Rat(1, 100))

C9_ScenarioConverges ==
    (InScenario /\ pc # "idle") =>
        /\ nfwd < cfg.max_epochs
        /\ pc \in {"return", "done"} =>
              /\ broke
              /\ it < cfg.max_epochs
              /\ CloseToTwo(variables[1].val)

\* The scenario converged after several update steps from a weight that was
\* not close to 2.
C9_Witness ==
    /\ InScenario
    /\ Done
    /\ broke
    /\ nupd >= 3
    /\ CloseToTwo(variables[1].val)

(***************************************************************************)
(* C10: a LinearModel made of Linear layers has no variable from its       *)
(* construction until its first forward pass; from then on its variables   *)
(* are, in layer order, each layer's weight followed by its bias iff       *)
(* use_bias, each once: later forward passes add none.                     *)
(***************************************************************************)
Tags(vs) == [i \in DOMAIN vs |-> <<vs[i].layer, vs[i].role>>]

RECURSIVE ExpectedTags(_)
ExpectedTags(n) ==
    IF n = 0 THEN <<>>
    ELSE ExpectedTags(n - 1) \o
             (IF layers[n].use_bias
              THEN << <<n, "w">>, <<n, "b">> >>
              ELSE << <<n, "w">> >>)

C10_LazyVariables ==
    model = "layered" =>
        IF ~called
        THEN /\ variables = <<>>
             /\ \A i \in DOMAIN layers : ~layers[i].built
        ELSE /\ Tags(variables) = ExpectedTags(Len(layers))
             /\ \A i \in DOMAIN layers : layers[i].built

\* MaxLayers layers with bias, after more than one forward pass.
C10_Witness ==
    /\ model = "layered"
    /\ called
    /\ nfwd >= 2
    /\ Len(layers) = MaxLayers
    /\ Len(variables) = 2 * MaxLayers

(***************************************************************************)
(* C11: in every iteration, iteration 0 included, the steps come in the    *)
(* order forward pass and loss, best_loss update, termination check        *)
(* against best_loss, progress logging, gradient computation, update.      *)
(* When the check fires, the termination notice is printed only if verbose *)
(* is nonzero, and that iteration prints no progress line, computes no     *)
(* gradient and updates nothing.                                           *)
(***************************************************************************)
Values(vs) == [i \in DOMAIN vs |-> vs[i].val]

C11_StepOrder ==
    [][/\ pc = "forward" =>
             /\ pc' = "best"
             /\ UNCHANGED <<it, best_loss, out, gradients, nupd>>
       /\ pc = "best" =>
             /\ pc' = "check"
             /\ UNCHANGED <<it, loss, out, gradients, variables, nupd>>
       /\ pc = "check" =>
             /\ UNCHANGED <<it, loss, best_loss, gradients, variables, nupd>>
             /\ IF RLess(best_loss.val, cfg.min_tol)
                THEN /\ pc' = "return"
                     /\ out' = IF cfg.verbose # 0
                               THEN Append(out, TerminatedLine)
                               ELSE out
                ELSE /\ pc' = "log"
                     /\ out' = out
       /\ pc = "log" =>
             /\ pc' = "grad"
             /\ UNCHANGED <<it, loss, best_loss, gradients, variables, nupd>>
       /\ pc = "grad" =>
             /\ pc' = "update"
             /\ UNCHANGED <<it, loss, best_loss, out, variables, nupd>>
       /\ pc = "update" =>
             /\ pc' \in {"update", "raised", "for"}
             /\ UNCHANGED <<it, loss, best_loss, out, gradients>>
       /\ pc = "return" =>
             /\ pc' = "done"
             /\ UNCHANGED <<it, loss, best_loss, out, gradients, variables,
                            nupd>>
       /\ pc \in {"done", "raised"} => FALSE
      ]_vars

\* The check fired at iteration 0 of a call that logs every iteration: the
\* notice is the only line, and nothing was computed or updated.
C11_Witness ==
    /\ Done
    /\ broke
    /\ it = 0
    /\ cfg.verbose = 1
    /\ out = <<TerminatedLine>>
    /\ gradients = <<>>
    /\ nupd = 0

(***************************************************************************)
(* C12: the model's variable sequence (its length, and which variable      *)
(* stands where) is the same at every point of a train call, from entry to *)
(* return, for every model trained, a LinearModel of lazily built Linear   *)
(* layers passed to train before any forward pass included.  (As stated;   *)
(* such a model gets its variables in iteration 0.)                        *)
(***************************************************************************)
C12_VariablesStableFromEntry ==
    pc # "idle" => Tags(variables) = Tags(entry)

(***************************************************************************)
(* C12, amended: the variable sequence is the same at every point of a     *)
(* train call for a model whose variables exist at entry (made by the      *)
(* constructor or by an earlier forward pass).  A LinearModel of lazily    *)
(* built layers that has seen no data has none at entry: the forward pass  *)
(* of iteration 0 creates them, and from there to the return the sequence  *)
(* is the same.                                                            *)
(***************************************************************************)
C12_VariablesStableOnceBuilt ==
    pc # "idle" =>
        IF entry # <<>>
        THEN Tags(variables) = Tags(entry)
        ELSE /\ model = "layered"
             /\ IF nfwd = 0
                THEN variables = <<>>
                ELSE Tags(variables) = ExpectedTags(Len(layers))

\* A fresh model of MaxLayers layers with bias, trained for some steps.
C12_Witness ==
    /\ Done
    /\ model = "layered"
    /\ entry = <<>>
    /\ nupd >= 1
    /\ Len(variables) = 2 * MaxLayers

(***************************************************************************)
(* C13: within an iteration all gradients are computed in one step, from   *)
(* the variables as they stand before any of them is changed in that       *)
(* iteration: when the gradients are computed every earlier update step    *)
(* is complete on every variable and none of this iteration's has begun,   *)
(* the gradients then stay as they are while the variables are updated,    *)
(* and the iterations do not overlap.                                      *)
(***************************************************************************)
C13_GradientsFromOneSnapshot ==
    [][/\ (gradients' # gradients \/ pre' # pre) =>
             /\ pc = "grad"
             /\ pre' = variables
             /\ variables' = variables
             /\ nupd = it
             /\ nfwd = it + 1
             /\ it > 0 => \A i \in DOMAIN variables : Descended(i)
             /\ model = "scalar" =>
                    gradients' = <<ScalarGradient(ScenarioX, ScenarioY,
                                                  variables[1].val)>>
       /\ (pc # "idle" /\ Values(variables') # Values(variables)) =>
             /\ pc = "update" \/ (pc = "forward" /\ variables = <<>>)
             /\ gradients' = gradients
       /\ nfwd' - nupd' \in {0, 1}
      ]_vars

\* In a later iteration, the first variable updated and the second not yet.
C13_Witness ==
    /\ pc = "update"
    /\ it >= 1
    /\ zi = 2
    /\ Len(variables) >= 2
    /\ variables[1] # pre[1]
    /\ variables[2] = pre[2]

(***************************************************************************)
(* C14: a mismatch between the variables and the gradients (another        *)
(* length, or no gradient for a variable) is not validated by train and    *)
(* ends the call with an error: the variable without a gradient is never   *)
(* passed over, no update step completes, no iteration follows and the     *)
(* call returns nothing.                                                   *)
(***************************************************************************)
Missing == {i \in DOMAIN gradients : gradients[i] = NoGradient}

C14_MismatchIsFatal ==
    /\ gradients # <<>> => Len(gradients) = Len(variables)
    /\ Missing # {} =>
          /\ pc \in {"update", "raised"}
          /\ nupd = it
          /\ nfwd = it + 1
          /\ ret = NotReturned
          /\ \A i \in Missing : zi <= i /\ variables[i] = pre[i]
    /\ pc = "raised" => zi \in Missing

\* The error came after the first variable had been updated.
C14_Witness ==
    /\ pc = "raised"
    /\ zi = 2
    /\ variables[1] # pre[1]
    /\ gradients[2] = NoGradient

(***************************************************************************)
(* C15: testing the running minimum best_loss is the same as testing the   *)
(* current loss: train stops early at iteration k iff loss_k < min_tol and *)
(* loss_j >= min_tol for all j < k, and best_loss is then loss_k; at every *)
(* check the two tests agree, so a loop that tests the current loss does   *)
(* the same forward passes, updates and prints.                            *)
(***************************************************************************)
Checked == IF pc \in {"best", "check"} THEN Len(losses) - 1 ELSE Len(losses)

C15_BestTestIsCurrentTest ==
    /\ pc = "check" =>
          (BelowTol(best_loss, cfg.min_tol) <=> RLess(loss, cfg.min_tol))
    /\ broke =>
          /\ Len(losses) = it + 1
          /\ loss = losses[it + 1]
          /\ best_loss = Float(loss)
          /\ RLess(loss, cfg.min_tol)
          /\ \A j \in 1..it : ~RLess(losses[j], cfg.min_tol)
    /\ ~broke => \A j \in 1..Checked : ~RLess(losses[j], cfg.min_tol)

\* A stop at the last iteration, after losses that were not below min_tol.
C15_Witness ==
    /\ Done
    /\ broke
    /\ it = MaxEpochs - 1
    /\ RLess(loss, cfg.min_tol)

(***************************************************************************)
(* C16: the iteration that stops early changes no variable: after a stop   *)
(* at iteration k exactly k update steps have been made and the variables  *)
(* are those that went through the forward pass whose loss was below       *)
(* min_tol; when max_epochs is exhausted, max_epochs update steps have     *)
(* been made and no forward pass has followed the last of them.            *)
(***************************************************************************)
\* The variables as they are before any update: those of the entry, or the
\* ones the first forward pass built.
Untrained ==
    IF entry # <<>> THEN variables = entry
    ELSE \A i \in DOMAIN variables :
             variables[i].val = IF variables[i].role = "w" THEN BuildW
                                ELSE Zero

C16_EarlyStopChangesNothing ==
    /\ broke =>
          /\ nupd = it
          /\ nfwd = it + 1
          /\ IF it = 0 THEN Untrained
             ELSE \A i \in DOMAIN variables : Descended(i)
    /\ (Done /\ ~broke) =>
          /\ nupd = cfg.max_epochs
          /\ nfwd = cfg.max_epochs
          /\ Len(losses) = nupd
          /\ \A i \in DOMAIN variables : Descended(i)

\* A stop after some training: the variables are not those of the entry.
C16_Witness ==
    /\ Done
    /\ broke
    /\ it >= 1
    /\ nupd = it
    /\ entry # <<>>
    /\ variables # entry

====
